---- MODULE Spec2Model ----
(***************************************************************************)
(* Model of the hugdata-ai retrieval-grounded SQL engine: the SQL          *)
(* generation pipeline, the SQL correction pipeline and service, and the   *)
(* relationship recommendation pipeline and service.                       *)
(*                                                                         *)
(* Texts (language-model replies, SQL statements) are sequences of pieces. *)
(* A piece is an atomic fragment of text; adjacent pieces are concatenated *)
(* with nothing in between, so whitespace is a piece of its own.           *)
(***************************************************************************)
EXTENDS Integers, Sequences, FiniteSets, TLC

\* ---------------------------------------------------------------- bounds

\* longest language-model reply, in pieces, explored exhaustively
MaxLen == 3
\* number of requests (corrections, recommendations, generations) admitted
MaxRequests == 2
\* longest relationship list a language-model reply may carry
MaxRels == 1

\* ---------------------------------------------------------------- text

NL == "\n"
SP == " "
SEMI == ";"
MSql == "SQL:"
MCorrected == "CORRECTED_SQL:"
MExplanation == "EXPLANATION:"
\* the markdown code fence (three backquote characters), with and without
\* the language tag; TLA+ strings cannot hold a backquote
FenceSql == "~~~sql"
Fence == "~~~"
PSelectFrom == "SELECT id FROM users"
PSelect == "SELECT"
PLimitLow == "LIMIT 100"
PLimitHigh == "LIMIT 5000"
PDrop == "DROP"
PCreatedAt == "created_at"
PWhere == "WHERE id > 0"

\* the pieces a language-model reply is made of
Pieces ==
    { MSql, MCorrected, MExplanation, FenceSql, Fence, SP, NL, SEMI,
      PSelectFrom, PLimitLow, PLimitHigh, PDrop, PCreatedAt }

\* \s of the regular expressions and of str.split()
IsSpace(p) == p \in {SP, NL}

\* whether the first / last character of a piece is a word character (\w)
StartsWithWordChar(p) ==
    p \in {MSql, MCorrected, MExplanation, PSelectFrom, PSelect, PLimitLow,
           PLimitHigh, PDrop, PCreatedAt, PWhere}

EndsWithWordChar(p) ==
    p \in {FenceSql, PSelectFrom, PSelect, PLimitLow, PLimitHigh, PDrop,
           PCreatedAt, PWhere}

\* the words whose upper-cased spelling occurs inside a piece (substring)
WordsIn(p) ==
    CASE p = PSelectFrom -> {"SELECT", "FROM"}
      [] p = PSelect     -> {"SELECT"}
      [] p = PLimitLow   -> {"LIMIT"}
      [] p = PLimitHigh  -> {"LIMIT"}
      [] p = PDrop       -> {"DROP"}
      [] p = PCreatedAt  -> {"CREATE"}
      [] p = PWhere      -> {"WHERE"}
      [] OTHER           -> {}

\* the words a piece consists of entirely, so that the piece is that word
\* as a whole token whenever its neighbours do not extend it
WholeWordsOf(p) ==
    CASE p = PDrop   -> {"DROP"}
      [] p = PSelect -> {"SELECT"}
      [] OTHER       -> {}

\* kw in text.upper() / kw in text.lower()
ContainsWord(t, kw) == \E i \in 1..Len(t) : kw \in WordsIn(t[i])

\* re.search(rf"\b{kw}\b", text.upper())
ContainsWholeWord(t, kw) ==
    \E i \in 1..Len(t) :
        /\ kw \in WholeWordsOf(t[i])
        /\ (i = 1 \/ ~EndsWithWordChar(t[i - 1]))
        /\ (i = Len(t) \/ ~StartsWithWordChar(t[i + 1]))

\* the row limit the prompts ask the language model to keep to
PromptMaxRows == 1000

\* the row limit a piece states, 0 when it states none
LimitValueOf(p) ==
    CASE p = PLimitLow -> 100 [] p = PLimitHigh -> 5000 [] OTHER -> 0

RECURSIVE SeqsUpTo(_, _)
\* all sequences over S of length at most n
SeqsUpTo(S, n) ==
    IF n = 0 THEN {<<>>}
    ELSE LET shorter == SeqsUpTo(S, n - 1)
         IN  shorter \cup {Append(s, x) : s \in {q \in shorter : Len(q) = n - 1}, x \in S}

\* t[a..b], empty when a > b
Slice(t, a, b) == IF a > b THEN <<>> ELSE SubSeq(t, a, b)

\* str.strip()
Strip(t) ==
    LET keep == {i \in 1..Len(t) : ~IsSpace(t[i])}
    IN  IF keep = {} THEN <<>>
        ELSE Slice(t, CHOOSE i \in keep : \A j \in keep : i <= j,
                      CHOOSE i \in keep : \A j \in keep : i >= j)

RECURSIVE RemoveFence(_, _)
\* re.sub of the fence followed by optional whitespace: drop every occurrence of the fence
\* piece together with the whitespace that follows it
RemoveFence(t, fence) ==
    IF t = <<>> THEN <<>>
    ELSE IF Head(t) = fence
         THEN LET rest == Tail(t)
                  nonsp == {i \in 1..Len(rest) : ~IsSpace(rest[i])}
              IN  IF nonsp = {} THEN <<>>
                  ELSE RemoveFence(
                         Slice(rest, CHOOSE i \in nonsp : \A j \in nonsp : i <= j,
                               Len(rest)), fence)
         ELSE <<Head(t)>> \o RemoveFence(Tail(t), fence)

RECURSIVE CollapseSpace(_)
\* " ".join(sql.split()) on a stripped text: every run of whitespace
\* becomes one space
CollapseSpace(t) ==
    IF t = <<>> THEN <<>>
    ELSE IF IsSpace(Head(t))
         THEN IF Len(t) > 1 /\ IsSpace(t[2])
              THEN CollapseSpace(Tail(t))
              ELSE <<SP>> \o CollapseSpace(Tail(t))
         ELSE <<Head(t)>> \o CollapseSpace(Tail(t))

NormalizeWhitespace(t) == CollapseSpace(Strip(t))

DangerousKeywords ==
    {"INSERT", "UPDATE", "DELETE", "DROP", "CREATE", "ALTER", "TRUNCATE"}

\* the statement after fence removal, whitespace normalisation and the
\* terminator, before the keyword scan (shared by both _clean_sql)
Terminated(sql) ==
    LET s == NormalizeWhitespace(RemoveFence(RemoveFence(sql, FenceSql), Fence))
    IN  IF s # <<>> /\ s[Len(s)] = SEMI THEN s ELSE Append(s, SEMI)

\* ------------------------------------------------- outcomes of a call

\* Python None and a present value
None == {}
Some(v) == {v}
The(o) == CHOOSE v \in o : TRUE

\* a call that returned v / a call that raised an exception of class cls
\* with the message msg
Returned(v) == [ok |-> TRUE, val |-> v, cls |-> "none", msg |-> "none"]
Raised(cls, msg) == [ok |-> FALSE, val |-> <<>>, cls |-> cls, msg |-> msg]

\* ------------------------------------- src/pipelines/sql_generation.py

\* a bug: DROP is missing from the keyword list
GenerationRejectsAllButDrop(s) ==
    \E kw \in DangerousKeywords \ {"DROP"} : ContainsWholeWord(s, kw)

\* the keyword scan of the generation validator: a whole-word match
GenerationRejects(s) == \E kw \in DangerousKeywords : ContainsWholeWord(s, kw)

\* SQLGenerationPipeline._clean_sql
CleanSqlGeneration(sql) ==
    LET s == Terminated(sql)
    IN  IF GenerationRejects(s)
        THEN Raised("ValueError", "Dangerous SQL keyword detected")
        ELSE Returned(s)

\* the indices at which the section header `marker` occurs in a reply; the
\* search is by substring, so SQL: also occurs inside CORRECTED_SQL:
MarkerAt(t, marker) ==
    {i \in 1..Len(t) :
        \/ t[i] = marker
        \/ marker = MSql /\ t[i] = MCorrected}

\* where the lazy section body that starts at `from` ends: just before the
\* first newline that is followed by optional whitespace and EXPLANATION:,
\* or at the end of the text
SectionEnd(t, from) ==
    LET stops == {j \in from..Len(t) :
                    /\ t[j] = NL
                    /\ \E k \in (j + 1)..Len(t) :
                          /\ t[k] = MExplanation
                          /\ \A m \in (j + 1)..(k - 1) : IsSpace(t[m])}
    IN  IF stops = {} THEN Len(t)
        ELSE (CHOOSE j \in stops : \A k \in stops : j <= k) - 1

\* group(1).strip() of  marker \s* (.*?) (?: \n \s* EXPLANATION: | $ )
\* for the leftmost occurrence i of the marker
SectionBody(t, i) ==
    LET after == {j \in (i + 1)..Len(t) : ~IsSpace(t[j])}
        from  == IF after = {} THEN Len(t) + 1
                 ELSE CHOOSE j \in after : \A k \in after : j <= k
    IN  Strip(Slice(t, from, SectionEnd(t, from)))

First(S) == CHOOSE i \in S : \A j \in S : i <= j

\* group(1) of  (SELECT.*?);?  -- the lazy body and the optional terminator
\* both match the empty string, so the group is the word SELECT alone
SelectSpan(t) ==
    IF \E i \in 1..Len(t) : "SELECT" \in WordsIn(t[i]) THEN <<PSelect>> ELSE <<>>

\* the candidate of _extract_sql_from_response, before it is cleaned: the
\* SQL: section, else the SELECT span, else the whole reply
SqlCandidate(response) ==
    LET at == MarkerAt(response, MSql)
    IN  IF at # {} THEN SectionBody(response, First(at))
        ELSE IF SelectSpan(response) # <<>> THEN SelectSpan(response)
        ELSE Strip(response)

\* SQLGenerationPipeline._extract_sql_from_response
ExtractSqlFromResponse(response) == CleanSqlGeneration(SqlCandidate(response))

\* -------------------------------------- src/pipelines/sql_correction.py

\* the keyword scan of the correction validator: a substring match
CorrectionRejects(s) == \E kw \in DangerousKeywords : ContainsWord(s, kw)

\* a bug: the statement is returned without the keyword scan
CleanSqlCorrectionUnscanned(sql) == Returned(Terminated(sql))

\* SQLCorrectionPipeline._clean_sql
CleanSqlCorrection(sql) ==
    LET s == Terminated(sql)
    IN  IF CorrectionRejects(s)
        THEN Raised("ValueError", "Dangerous SQL keyword detected in correction")
        ELSE Returned(s)

IsFence(p) == p \in {Fence, FenceSql}

\* the opening fences of a fenced sql block that is closed later on
FencedBlockAt(t) ==
    {i \in 1..Len(t) : t[i] = FenceSql /\ \E j \in (i + 1)..Len(t) : IsFence(t[j])}

\* group(1).strip() of the fenced block opened at i
FencedBody(t, i) ==
    Strip(Slice(t, i + 1, First({j \in (i + 1)..Len(t) : IsFence(t[j])}) - 1))

\* the candidate of _extract_corrected_sql, before it is cleaned: the
\* CORRECTED_SQL: section, else the first fenced sql block, else the SELECT
\* span, else none
CorrectedSqlCandidate(response) ==
    LET at == MarkerAt(response, MCorrected)
        blocks == FencedBlockAt(response)
    IN  IF at # {} THEN Some(SectionBody(response, First(at)))
        ELSE IF blocks # {} THEN Some(FencedBody(response, First(blocks)))
        ELSE IF SelectSpan(response) # <<>> THEN Some(SelectSpan(response))
        ELSE None

\* SQLCorrectionPipeline._extract_corrected_sql
ExtractCorrectedSql(response) ==
    LET candidate == CorrectedSqlCandidate(response)
    IN  IF candidate # None THEN CleanSqlCorrection(The(candidate))
        ELSE Raised("ValueError", "Could not extract corrected SQL from response")

\* the replies explored exhaustively: every text of at most MaxLen pieces in
\* which a bare fence is not directly followed by the SQL: header (the two
\* would read as a tagged fence)
AllReplies ==
    {r \in SeqsUpTo(Pieces, MaxLen) :
        \A i \in 1..(Len(r) - 1) : ~(r[i] = Fence /\ r[i + 1] = MSql)}

\* SQLCorrectionPipeline._validate_correction; confidences are in hundredths.
\* original.strip().lower() == corrected.strip().lower() is equality of the
\* stripped piece sequences: no two pieces differ in case only
\* a bug: the unchanged correction keeps the base 0.5 (0.5, +0.2 only when
\* the text differs)
ValidateCorrectionFlatBase(original_sql, corrected_sql) ==
    LET same == Strip(original_sql) = Strip(corrected_sql)
        structure == (IF ContainsWord(corrected_sql, "SELECT") THEN 10 ELSE 0)
                       + (IF ContainsWord(corrected_sql, "FROM") THEN 10 ELSE 0)
                       + (IF ContainsWord(corrected_sql, "LIMIT") THEN 10 ELSE 0)
        dangerous == \E kw \in DangerousKeywords : ContainsWord(corrected_sql, kw)
    IN  [passed |-> ~dangerous,
         confidence |-> IF dangerous THEN 0
                        ELSE 50 + (IF same THEN 0 ELSE 20) + structure]

ValidateCorrection(original_sql, corrected_sql) ==
    LET same == Strip(original_sql) = Strip(corrected_sql)
        base == IF same THEN 20 ELSE 50 + 20
        structure == (IF ContainsWord(corrected_sql, "SELECT") THEN 10 ELSE 0)
                   + (IF ContainsWord(corrected_sql, "FROM") THEN 10 ELSE 0)
                   + (IF ContainsWord(corrected_sql, "LIMIT") THEN 10 ELSE 0)
        dangerous == \E kw \in DangerousKeywords : ContainsWord(corrected_sql, kw)
        conf == IF dangerous THEN 0 ELSE base + structure
    IN  [passed |-> ~dangerous,
         confidence |-> IF conf > 100 THEN 100 ELSE conf]

\* what _validate_correction returns from its except clause
ValidateCorrectionExcept == [passed |-> FALSE, confidence |-> 10]

\* what SQLCorrectionPipeline.correct_sql does with the language model's
\* reply (steps 5 and 6 and the except clause that re-raises as Exception)
CorrectionFromReply(sql, error, response) ==
    LET extracted == ExtractCorrectedSql(response)
    IN  IF ~extracted.ok
        THEN Raised("Exception", extracted.msg)
        ELSE LET v == ValidateCorrection(sql, extracted.val)
             IN  Returned([corrected_sql |-> extracted.val,
                           original_sql |-> sql,
                           original_error |-> error,
                           confidence |-> v.confidence,
                           validation_passed |-> v.passed])

\* ---------------------------------------- src/providers/vector_store.py

\* VectorStore.similarity_search(query, collection_name, limit=10,
\* filters=None): whether a call with these keyword arguments binds to the
\* signature (a call that does not bind raises TypeError before the store
\* does anything)
SimilaritySearchBinds(kwargs) ==
    /\ {"query", "collection_name"} \subseteq kwargs
    /\ kwargs \subseteq {"query", "collection_name", "limit", "filters"}

\* the keyword arguments of the three call sites
SchemaLookupKwargs == {"query", "collection", "limit"}
CorrectionSearchKwargs == {"query", "collection", "limit"}
GenerationSearchKwargs == {"query", "collection_name", "limit"}

\* --------------------------- src/pipelines/relationship_recommendation.py

\* model definitions (MDL) a caller submits: the JSON text either does not
\* parse, or parses to a list of models with their columns; a column may
\* already be a relationship
Column(name, rel) == [name |-> name, relationship |-> rel]
UsersModel == [name |-> "users", columns |-> <<Column("id", FALSE)>>]
OrdersModel ==
    [name |-> "orders",
     columns |-> <<Column("id", FALSE), Column("user_id", FALSE), Column("user", TRUE)>>]
MdlInvalid == [valid_json |-> FALSE, models |-> <<>>]
MdlOne == [valid_json |-> TRUE, models |-> <<UsersModel>>]
MdlTwo == [valid_json |-> TRUE, models |-> <<OrdersModel, UsersModel>>]
Mdls == {MdlInvalid, MdlOne, MdlTwo}

\* RelationshipRecommendationPipeline._clean_models: every model is kept,
\* without its relationship columns
CleanModels(mdl) ==
    LET NotRel(c) == ~c.relationship
    IN  [i \in 1..Len(mdl.models) |->
            [name |-> mdl.models[i].name,
             columns |-> SelectSeq(mdl.models[i].columns, NotRel)]]

\* model_columns of _validate_relationships: model name -> the names of
\* its columns that are not relationships
ModelNames(mdl) == {mdl.models[i].name : i \in 1..Len(mdl.models)}
ModelColumns(mdl, model) ==
    LET m == CHOOSE x \in {mdl.models[i] : i \in 1..Len(mdl.models)} : x.name = model
    IN  {m.columns[j].name : j \in {k \in 1..Len(m.columns) : ~m.columns[k].relationship}}

\* RelationType.is_valid
RelationTypes == {"MANY_TO_ONE", "ONE_TO_MANY", "ONE_TO_ONE"}
IsValidRelationType(value) == value \in RelationTypes

RequiredFields ==
    {"name", "fromModel", "fromColumn", "type", "toModel", "toColumn", "reason"}

\* a bug: the self-relationship check is missing
CandidateAcceptedSelf(rel, mdl) ==
    /\ RequiredFields \subseteq DOMAIN rel
    /\ IsValidRelationType(rel["type"])
    /\ rel["fromModel"] \in ModelNames(mdl)
    /\ rel["toModel"] \in ModelNames(mdl)
    /\ rel["fromColumn"] \in ModelColumns(mdl, rel["fromModel"])
    /\ rel["toColumn"] \in ModelColumns(mdl, rel["toModel"])

\* the checks of _validate_relationships on one candidate, a JSON object
\* given as a function from the keys it has to their values
CandidateAccepted(rel, mdl) ==
    /\ RequiredFields \subseteq DOMAIN rel
    /\ IsValidRelationType(rel["type"])
    /\ rel["fromModel"] \in ModelNames(mdl)
    /\ rel["toModel"] \in ModelNames(mdl)
    /\ rel["fromColumn"] \in ModelColumns(mdl, rel["fromModel"])
    /\ rel["toColumn"] \in ModelColumns(mdl, rel["toModel"])
    /\ rel["fromModel"] # rel["toModel"]

\* JSON values that are not strings, as the value of a candidate's field
JsonNull == "null"
JsonList == "[]"

\* whether _validate_relationships raises TypeError on a candidate: a list
\* is unhashable, and the membership tests of the type, the models and the
\* columns hash the value they are given
CandidateRaises(rel, mdl) ==
    /\ RequiredFields \subseteq DOMAIN rel
    /\ \/ rel["type"] = JsonList
       \/ /\ IsValidRelationType(rel["type"])
          /\ \/ rel["fromModel"] = JsonList
             \/ /\ rel["fromModel"] \in ModelNames(mdl)
                /\ \/ rel["toModel"] = JsonList
                   \/ /\ rel["toModel"] \in ModelNames(mdl)
                      /\ \/ rel["fromColumn"] = JsonList
                         \/ /\ rel["fromColumn"] \in ModelColumns(mdl, rel["fromModel"])
                            /\ rel["toColumn"] = JsonList

\* RelationshipRecommendationPipeline._validate_relationships
ValidateRelationships(relationships, original_mdl) ==
    LET Accepted(rel) == CandidateAccepted(rel, original_mdl)
        Copy(rel) == [f \in RequiredFields |-> rel[f]]
        kept == SelectSeq(relationships, Accepted)
    IN  [i \in 1..Len(kept) |-> Copy(kept[i])]

\* pieces of a reply to the recommendation prompt; PRels stands for the
\* member "relationships": [...] whose value the reply carries in .rels
LBrace == "{"
RBrace == "}"
PRels == "relationships: [...]"
\* the member "relationships": null
PRelsNull == "relationships: null"
PText == "text"
FenceJson == "~~~json"
RecPieces == {LBrace, RBrace, PRels, PRelsNull, PText, FenceJson, Fence}

RECURSIVE Without(_, _)
\* str.replace(piece, "")
Without(t, piece) ==
    IF t = <<>> THEN <<>>
    ELSE IF Head(t) = piece THEN Without(Tail(t), piece)
         ELSE <<Head(t)>> \o Without(Tail(t), piece)

Last(S) == CHOOSE i \in S : \A j \in S : i >= j

\* json_str of _normalize_response: the reply without its fences, from the
\* first opening brace to the last closing one
JsonSpan(reply) ==
    LET t == Without(Without(reply.text, FenceJson), Fence)
        opens == {i \in 1..Len(t) : t[i] = LBrace}
        closes == {i \in 1..Len(t) : t[i] = RBrace}
    IN  IF opens # {} /\ closes # {} /\ Last(closes) + 1 > First(opens)
        THEN Slice(t, First(opens), Last(closes))
        ELSE <<>>

\* a bug: a reply that opens an object is taken to carry its list, without
\* the object being parsed
NormalizeResponseUnparsed(reply) ==
    IF \E i \in 1..Len(reply.text) : reply.text[i] = LBrace
    THEN reply.rels
    ELSE <<>>

\* RelationshipRecommendationPipeline._normalize_response followed by
\* .get("relationships", []): the candidate list the reply yields
NormalizeResponse(reply) ==
    IF JsonSpan(reply) = <<LBrace, PRels, RBrace>> THEN reply.rels
    ELSE <<>>

\* RelationshipRecommendationPipeline.recommend_relationships up to the
\* language-model call: the dict it returns without calling the model, or
\* None when it goes on to call it
RecommendWithoutModel(mdl) ==
    IF Len(CleanModels(mdl)) < 2
    THEN Some([relationships |-> <<>>])
    ELSE None

\* recommend_relationships after the language model has replied
RecommendFromReply(mdl, reply) ==
    LET validated == ValidateRelationships(NormalizeResponse(reply), mdl)
    IN  [relationships |-> validated,
         total_recommendations |-> Len(validated),
         models_analyzed |-> Len(CleanModels(mdl))]

\* recommend_relationships from the reply to its end: the iteration over a
\* relationships value that is null raises, a candidate with a list for a
\* field raises, and the except clause re-raises as Exception
RecommendOutcome(mdl, reply) ==
    IF JsonSpan(reply) = <<LBrace, PRelsNull, RBrace>>
    THEN Raised("Exception", "'NoneType' object is not iterable")
    ELSE IF \E i \in 1..Len(NormalizeResponse(reply)) :
                CandidateRaises(NormalizeResponse(reply)[i], mdl)
    THEN Raised("Exception", "unhashable type: 'list'")
    ELSE Returned(RecommendFromReply(mdl, reply))

\* candidates the language model may propose
Candidate(fm, fc, ty, tm, tc) ==
    [name |-> "rel", fromModel |-> fm, fromColumn |-> fc, type |-> ty,
     toModel |-> tm, toColumn |-> tc, reason |-> "why"]
ValidCandidate == Candidate("orders", "user_id", "MANY_TO_ONE", "users", "id")
SelfCandidate == Candidate("users", "id", "ONE_TO_ONE", "users", "id")
ProposedModels == {"orders", "users", "ghosts"}
AllCandidates ==
    {Candidate(fm, fc, ty, tm, tc) :
        fm \in ProposedModels, fc \in {"id", "user_id", "user"},
        ty \in RelationTypes \cup {"MANY_TO_MANY"},
        tm \in ProposedModels, tc \in {"id", "total"}}
    \cup {[f \in RequiredFields \ {g} |-> ValidCandidate[f]] : g \in RequiredFields}

\* the valid candidate with one field of another JSON kind
WrongKindCandidates ==
    {[ValidCandidate EXCEPT ![f] = v] :
        f \in RequiredFields, v \in {JsonNull, JsonList}}

CanonicalRecText == <<LBrace, PRels, RBrace>>
SampleRels == <<ValidCandidate, SelfCandidate>>
GoodRecReply == [text |-> CanonicalRecText, rels |-> SampleRels]
MalformedRecReply == [text |-> <<PText, LBrace, PRels>>, rels |-> SampleRels]
SampleRecReplies == {GoodRecReply, MalformedRecReply}
AllRecReplies ==
    {[text |-> t, rels |-> SampleRels] : t \in SeqsUpTo(RecPieces, MaxLen)}
    \cup {[text |-> CanonicalRecText, rels |-> q] : q \in SeqsUpTo(AllCandidates, MaxRels)}
    \cup {[text |-> CanonicalRecText, rels |-> q] :
            q \in SeqsUpTo(WrongKindCandidates \cup {ValidCandidate}, MaxRels)}

\* ------------------------------------------------------------- state

VARIABLES
    scope,      \* what a behaviour explores: [exhaustive, requests]
    next_id,    \* how many request ids (uuid4) have been handed out
    events,     \* SqlCorrectionService.events: id -> event
    ctasks,     \* the background correct_sql task of each correction id
    recommendations, \* RelationshipRecommendationService.recommendations
    rtasks,     \* the background recommend_relationships task of each id
    gens,       \* the /generate-sql requests: id -> call of generate_sql
    storage,    \* the vector store: collection name -> its documents
    indexed,    \* the schema indexing requests served so far, in order
    queries,    \* AskService._queries: query id -> entry
    qtasks      \* the background _process_query task of each query id

vars == <<scope, next_id, events, ctasks, recommendations, rtasks, gens,
          storage, indexed, queries, qtasks>>
schemaVars == <<storage, indexed>>
askVars == <<queries, qtasks>>
corrVars == <<events, ctasks>>
recVars == <<recommendations, rtasks>>

\* a language-model call that fails (timeout, API error, not configured)
LlmFailure == Raised("Exception", "OpenAI API error")

\* replies of the language model to a correction prompt
GoodCorrectionReply ==
    <<MCorrected, NL, PSelectFrom, SP, PLimitLow, SEMI, NL, MExplanation>>
DropCorrectionReply == <<MCorrected, SP, PDrop, SP, PSelectFrom>>
EmptyCorrectionReply == <<PLimitLow>>
SampleCorrectionReplies ==
    {GoodCorrectionReply, DropCorrectionReply, EmptyCorrectionReply}

CorrectionReplies ==
    IF scope.exhaustive THEN AllReplies ELSE SampleCorrectionReplies

\* the SQL statements and error messages a caller submits for correction
BrokenSql == <<PSelectFrom, SEMI>>
OriginalSqls ==
    IF scope.exhaustive THEN {BrokenSql, <<PSelect, SP, PCreatedAt>>}
    ELSE {BrokenSql}
ErrorMessages ==
    IF scope.exhaustive
    THEN {"syntax error near 'users'", "Invalid syntax at line 1",
          "Table 'orders' doesn't exist", "Missing closing parenthesis"}
    ELSE {"syntax error near 'users'"}

\* pattern in error.lower(): the patterns of the two classifiers that occur
\* in an error message
PhrasesIn(error) ==
    CASE error = "syntax error near 'users'" -> {"syntax error"}
      [] error = "Invalid syntax at line 1" -> {"invalid syntax"}
      [] error = "Table 'orders' doesn't exist" -> {"table", "doesn't exist"}
      [] error = "Missing closing parenthesis" -> {"missing", "parenthes"}
      [] OTHER -> {}

\* SqlCorrectionService._determine_error_type
DetermineErrorType(error) ==
    LET found == PhrasesIn(error)
    IN  IF found \cap {"syntax error", "unexpected token"} # {}
        THEN "syntax_error"
        ELSE IF found \cap {"column", "doesn't exist", "unknown column"} # {}
        THEN "column_not_found"
        ELSE IF found \cap {"table", "doesn't exist", "unknown table"} # {}
        THEN "table_not_found"
        ELSE IF "group by" \in found THEN "missing_group_by"
        ELSE IF found \cap {"join", "on clause"} # {} THEN "join_error"
        ELSE "unknown"

\* error_patterns of _analyze_error, in the order of the dict
ErrorPatterns ==
    << <<"syntax_error", {"syntax error", "unexpected token", "invalid syntax"}>>,
       <<"column_not_found", {"column", "doesn't exist", "unknown column"}>>,
       <<"table_not_found", {"table", "doesn't exist", "unknown table",
                             "relation does not exist"}>>,
       <<"missing_group_by", {"group by", "not in group by", "aggregate"}>>,
       <<"unbalanced_parentheses", {"parenthes", "bracket", "missing"}>>,
       <<"join_error", {"join", "on clause", "ambiguous"}>>,
       <<"data_type_error", {"type", "conversion", "cast", "invalid type"}>>,
       <<"missing_from", {"from", "missing from clause"}>> >>

\* SQLCorrectionPipeline._analyze_error: the detected types in the order of
\* the table, and the first of them as the primary type
AnalyzeError(error) ==
    LET hits == {i \in 1..Len(ErrorPatterns) :
                    ErrorPatterns[i][2] \cap PhrasesIn(error) # {}}
    IN  [detected_error_types |-> {ErrorPatterns[i][1] : i \in hits},
         primary_error_type |-> IF hits = {} THEN "unknown"
                                ELSE ErrorPatterns[First(hits)][1]]

\* the Error Type line of _build_correction_prompt
PromptErrorType(error) == AnalyzeError(error).primary_error_type
ProjectIds == {None, Some("p1")}

Allocated == 1..next_id
CanAdmit == next_id < scope.requests

\* a bug: the update lands on every entry of the map
UpdateEveryEntry(map, id, fields) ==
    IF id \in DOMAIN map
    THEN [i \in DOMAIN map |-> fields @@ map[i]]
    ELSE map

\* dict.update / item assignment guarded by `if event_id in self.events`
UpdateEntry(map, id, fields) ==
    IF id \in DOMAIN map
    THEN [map EXCEPT ![id] = fields @@ map[id]]
    ELSE map

RemoveEntries(map, ids) == [i \in DOMAIN map \ ids |-> map[i]]

\* ---------------------- src/web/v1/services/sql_correction_service.py

\* SqlCorrectionService.initialize_event; created_at is the position of
\* the request in creation order (utcnow never goes back)
InitializeEvent(id) ==
    events @@ (id :> [event_id |-> id,
                      status |-> "correcting",
                      created_at |-> id,
                      response |-> None,
                      error |-> None,
                      invalid_sql |-> None])

\* a bug: the except clause sets the status and drops the error
CorrectionFailedWithoutError(map, id, exc) ==
    UpdateEntry(map, id, [status |-> "failed"])

\* the except clause of SqlCorrectionService.correct_sql
CorrectionFailed(map, id, exc) ==
    UpdateEntry(map, id, [status |-> "failed",
                          error |-> Some([message |-> exc.msg, type |-> exc.cls])])

\* a bug: the result is stored under the id without the membership test,
\* which puts a removed entry back
CorrectionFinishedCreating(map, id, result) ==
    (id :> [event_id |-> id, status |-> "finished", created_at |-> id,
            response |-> Some(result), error |-> None, invalid_sql |-> None])
        @@ map

\* the successful end of SqlCorrectionService.correct_sql
CorrectionFinished(map, id, result) ==
    UpdateEntry(map, id, [status |-> "finished", response |-> Some(result)])

\* routers/sql_corrections.py correct_sql: a fresh id, the event, and the
\* background task
CorrectSqlRequest ==
    /\ CanAdmit
    /\ \E sql \in OriginalSqls, error \in ErrorMessages, project \in ProjectIds :
        LET id == next_id + 1 IN
        /\ next_id' = id
        /\ events' = InitializeEvent(id)
        /\ ctasks' = ctasks @@ (id :> [pc |-> "queued", sql |-> sql, error |-> error,
                                       project_id |-> project,
                                       llm_calls |-> 0, search_calls |-> 0,
                                       failed_calls |-> 0,
                                       reply |-> None, outcome |-> "pending"])
    /\ UNCHANGED <<scope, recVars, gens, schemaVars, askVars>>

\* a bug: the pipeline's error leaves the task without being recorded
EnterCorrectionPipelineUnrecorded(ev, id, t) ==
    IF t.project_id # None
    THEN [events |-> ev, task |-> [t EXCEPT !.pc = "done", !.outcome = "raised"]]
    ELSE [events |-> ev,
          task |-> [t EXCEPT !.pc = "await_llm", !.llm_calls = @ + 1]]

\* SQLCorrectionPipeline.correct_sql from its start to its first await, for
\* the task t of id, on the event map ev: the retrieval call when a project
\* is given, else the language-model call
EnterCorrectionPipeline(ev, id, t) ==
    IF t.project_id # None
    THEN IF SimilaritySearchBinds(CorrectionSearchKwargs)
         THEN [events |-> ev,
               task |-> [t EXCEPT !.pc = "await_search",
                                  !.search_calls = @ + 1]]
         ELSE [events |-> CorrectionFailed(ev, id,
                            Raised("Exception", "unexpected keyword argument 'collection'")),
               task |-> [t EXCEPT !.pc = "done", !.outcome = "raised",
                                  !.search_calls = @ + 1,
                                  !.failed_calls = @ + 1]]
    ELSE [events |-> ev,
          task |-> [t EXCEPT !.pc = "await_llm", !.llm_calls = @ + 1]]

\* a bug: the task is run again after it has ended (a retry), and its first
\* statement puts the entry back to correcting
CorrectSqlStartAgain(id) ==
    /\ id \in DOMAIN ctasks
    /\ ctasks[id].pc \in {"queued", "done"}
    /\ LET t == ctasks[id]
           ev == UpdateEntry(events, id, [status |-> "correcting",
                                          invalid_sql |-> Some(t.sql)])
           next == EnterCorrectionPipeline(ev, id, t)
       IN  /\ events' = next.events
           /\ ctasks' = [ctasks EXCEPT ![id] = next.task]
    /\ UNCHANGED <<scope, next_id, recVars, gens, schemaVars, askVars>>

\* SqlCorrectionService.correct_sql from its start to its first await
CorrectSqlStart(id) ==
    /\ id \in DOMAIN ctasks
    /\ ctasks[id].pc = "queued"
    /\ LET t == ctasks[id]
           ev == UpdateEntry(events, id, [status |-> "correcting",
                                          invalid_sql |-> Some(t.sql)])
           \* _get_project_schema: a search call that cannot be bound raises
           \* at once, and the raise is swallowed
           next == IF t.project_id = None
                   THEN EnterCorrectionPipeline(ev, id, t)
                   ELSE IF SimilaritySearchBinds(SchemaLookupKwargs)
                   THEN [events |-> ev,
                         task |-> [t EXCEPT !.pc = "await_schema",
                                            !.search_calls = @ + 1]]
                   ELSE EnterCorrectionPipeline(ev, id,
                            [t EXCEPT !.search_calls = @ + 1,
                                      !.failed_calls = @ + 1])
       IN  /\ events' = next.events
           /\ ctasks' = [ctasks EXCEPT ![id] = next.task]
    /\ UNCHANGED <<scope, next_id, recVars, gens, schemaVars, askVars>>

\* the awaited collaborator call of a correction task returns or raises and
\* the task runs on to its next await or to its end
CorrectSqlResume(id) ==
    /\ id \in DOMAIN ctasks
    /\ LET t == ctasks[id] IN
       \/ /\ t.pc = "await_schema"
          \* _get_project_schema swallows a failed search and returns None
          /\ \E raised \in BOOLEAN :
             LET next == EnterCorrectionPipeline(events, id,
                            IF raised THEN [t EXCEPT !.failed_calls = @ + 1] ELSE t)
             IN  /\ events' = next.events
                 /\ ctasks' = [ctasks EXCEPT ![id] = next.task]
       \/ /\ t.pc = "await_search"
          /\ \/ /\ ctasks' = [ctasks EXCEPT ![id].pc = "await_llm",
                                            ![id].llm_calls = @ + 1]
                /\ UNCHANGED events
             \/ /\ events' = CorrectionFailed(events, id,
                                Raised("Exception", "Similarity search failed"))
                /\ ctasks' = [ctasks EXCEPT ![id].pc = "done",
                                            ![id].failed_calls = @ + 1,
                                            ![id].outcome = "raised"]
       \/ /\ t.pc = "await_llm"
          /\ \E out \in {Returned(r) : r \in CorrectionReplies} \cup {LlmFailure} :
                LET result == IF out.ok
                              THEN CorrectionFromReply(t.sql, t.error, out.val)
                              ELSE Raised("Exception", out.msg)
                IN  /\ events' = IF result.ok
                                 THEN CorrectionFinished(events, id, result.val)
                                 ELSE CorrectionFailed(events, id, result)
                    /\ ctasks' = [ctasks EXCEPT
                            ![id].pc = "done",
                            ![id].failed_calls = IF out.ok THEN @ ELSE @ + 1,
                            ![id].reply = IF out.ok THEN Some(out.val) ELSE None,
                            ![id].outcome = IF result.ok THEN "returned" ELSE "raised"]
    /\ UNCHANGED <<scope, next_id, recVars, gens, schemaVars, askVars>>

\* SqlCorrectionService.get_event_status
GetEventStatus(id) == IF id \in DOMAIN events THEN Some(events[id]) ELSE None

\* SqlCorrectionService.delete_event
DeleteEvent(id) ==
    /\ id \in DOMAIN events
    /\ events' = RemoveEntries(events, {id})
    /\ UNCHANGED <<scope, next_id, ctasks, recVars, gens, schemaVars, askVars>>

\* SqlCorrectionService.cleanup_old_events: every event created before the
\* cutoff goes
CleanupOldEvents(cutoff) ==
    /\ events' = RemoveEntries(events, {i \in DOMAIN events : events[i].created_at < cutoff})
    /\ events' # events
    /\ UNCHANGED <<scope, next_id, ctasks, recVars, gens, schemaVars, askVars>>

\* ------------ src/web/v1/services/relationship_recommendation_service.py

RecommendationReplies ==
    IF scope.exhaustive THEN AllRecReplies ELSE SampleRecReplies

\* RelationshipRecommendationService.initialize_recommendation
InitializeRecommendation(id) ==
    recommendations @@ (id :> [id |-> id,
                               status |-> "generating",
                               created_at |-> id,
                               response |-> None,
                               error |-> None])

\* a bug: the except clause logs the error and leaves the entry alone
RecommendationFailedUnrecorded(map, id, exc) == map

\* the except clause of RelationshipRecommendationService.recommend_relationships
RecommendationFailed(map, id, exc) ==
    UpdateEntry(map, id, [status |-> "failed",
                          error |-> Some([message |-> exc.msg, type |-> exc.cls])])

\* whether the pipeline's result has every key the service reads
ResultComplete(result) ==
    {"relationships", "total_recommendations", "models_analyzed"} \subseteq DOMAIN result

\* the end of the try block of recommend_relationships: the response is
\* built from the keys of the pipeline's result, and a missing key raises
\* KeyError before the entry is touched
RecommendationFinished(map, id, result, project) ==
    IF ResultComplete(result)
    THEN UpdateEntry(map, id,
            [status |-> "finished",
             response |-> Some([relationships |-> result.relationships,
                                total_recommendations |-> result.total_recommendations,
                                models_analyzed |-> result.models_analyzed,
                                project_id |-> project])])
    ELSE RecommendationFailed(map, id, Raised("KeyError", "'total_recommendations'"))

\* routers/relationship_recommendation.py recommend_relationships
RecommendRequest ==
    /\ CanAdmit
    /\ \E mdl \in Mdls, project \in ProjectIds :
        LET id == next_id + 1 IN
        /\ next_id' = id
        /\ recommendations' = InitializeRecommendation(id)
        /\ rtasks' = rtasks @@ (id :> [pc |-> "queued", mdl |-> mdl,
                                       project_id |-> project, llm_calls |-> 0,
                                       reply |-> None, outcome |-> "pending"])
    /\ UNCHANGED <<scope, corrVars, gens, schemaVars, askVars>>

\* RelationshipRecommendationService.recommend_relationships from its start
\* to the language-model call, or to its end when the call is not reached
RecommendStart(id) ==
    /\ id \in DOMAIN rtasks
    /\ rtasks[id].pc = "queued"
    /\ LET t == rtasks[id]
           generating == UpdateEntry(recommendations, id, [status |-> "generating"])
           early == RecommendWithoutModel(t.mdl)
       IN  IF ~t.mdl.valid_json
           THEN /\ recommendations' = RecommendationFailed(generating, id,
                                         Raised("ValueError", "Invalid MDL JSON"))
                /\ rtasks' = [rtasks EXCEPT ![id].pc = "done", ![id].outcome = "raised"]
           ELSE IF early # None
           THEN /\ recommendations' = RecommendationFinished(generating, id, The(early),
                                                             t.project_id)
                /\ rtasks' = [rtasks EXCEPT
                        ![id].pc = "done",
                        ![id].outcome = IF id \in DOMAIN recommendations
                                           /\ ~ResultComplete(The(early))
                                        THEN "raised" ELSE "returned"]
           ELSE /\ recommendations' = generating
                /\ rtasks' = [rtasks EXCEPT ![id].pc = "await_llm",
                                            ![id].llm_calls = @ + 1]
    /\ UNCHANGED <<scope, next_id, corrVars, gens, schemaVars, askVars>>

\* the language-model call of a recommendation task returns or raises and
\* the task runs to its end
RecommendResume(id) ==
    /\ id \in DOMAIN rtasks
    /\ rtasks[id].pc = "await_llm"
    /\ LET t == rtasks[id] IN
       \/ \E reply \in RecommendationReplies :
            LET result == RecommendOutcome(t.mdl, reply) IN
            /\ recommendations' = IF result.ok
                                  THEN RecommendationFinished(recommendations, id,
                                           result.val, t.project_id)
                                  ELSE RecommendationFailed(recommendations, id, result)
            /\ rtasks' = [rtasks EXCEPT
                    ![id].pc = "done",
                    ![id].reply = Some(reply),
                    ![id].outcome = IF result.ok THEN "returned" ELSE "raised"]
       \/ /\ recommendations' = RecommendationFailed(recommendations, id, LlmFailure)
          /\ rtasks' = [rtasks EXCEPT ![id].pc = "done", ![id].outcome = "raised"]
    /\ UNCHANGED <<scope, next_id, corrVars, gens, schemaVars, askVars>>

\* RelationshipRecommendationService.get_recommendation_status
GetRecommendationStatus(id) ==
    IF id \in DOMAIN recommendations THEN Some(recommendations[id]) ELSE None

\* RelationshipRecommendationService.delete_recommendation
DeleteRecommendation(id) ==
    /\ id \in DOMAIN recommendations
    /\ recommendations' = RemoveEntries(recommendations, {id})
    /\ UNCHANGED <<scope, next_id, rtasks, corrVars, gens, schemaVars, askVars>>

\* RelationshipRecommendationService.cleanup_old_recommendations
CleanupOldRecommendations(cutoff) ==
    /\ recommendations' = RemoveEntries(recommendations,
            {i \in DOMAIN recommendations : recommendations[i].created_at < cutoff})
    /\ recommendations' # recommendations
    /\ UNCHANGED <<scope, next_id, rtasks, corrVars, gens, schemaVars, askVars>>

RECURSIVE NewestFirst(_, _)
\* sort(key=created_at, reverse=True) of the entries of map under ids
NewestFirst(map, ids) ==
    IF ids = {} THEN <<>>
    ELSE LET newest == CHOOSE i \in ids :
                          \A j \in ids : map[j].created_at <= map[i].created_at
         IN  <<map[newest]>> \o NewestFirst(map, ids \ {newest})

\* the project filter of list_recommendations and get_statistics:
\* rec.get("response", {}) is None for an entry that has no response (the
\* key is there from initialize_recommendation), and None has no get
ProjectFilter(map, ids, project_id) ==
    IF \E i \in ids : map[i].response = None
    THEN Raised("AttributeError", "'NoneType' object has no attribute 'get'")
    ELSE Returned({i \in ids : The(map[i].response).project_id = project_id})

\* RelationshipRecommendationService.list_recommendations; project_id and
\* status are optional
ListRecommendations(map, project_id, status, limit) ==
    LET by_status == {i \in DOMAIN map : status = None \/ map[i].status = The(status)}
        filtered == IF project_id # None
                    THEN ProjectFilter(map, by_status, project_id)
                    ELSE Returned(by_status)
    IN  IF ~filtered.ok THEN filtered
        ELSE LET sorted == NewestFirst(map, filtered.val)
             IN  Returned(IF Len(sorted) > limit THEN SubSeq(sorted, 1, limit)
                          ELSE sorted)

\* RelationshipRecommendationService.get_statistics; the success rate is in
\* hundredths and the average in tenths (no tie arises in round() for the
\* counts of so few entries)
GetStatistics(map, project_id) ==
    LET filtered == IF project_id # None
                    THEN ProjectFilter(map, DOMAIN map, project_id)
                    ELSE Returned(DOMAIN map)
    IN  IF ~filtered.ok THEN filtered
        ELSE LET ids == filtered.val
                 successful == Cardinality({i \in ids : map[i].status = "finished"})
                 failed == Cardinality({i \in ids : map[i].status = "failed"})
                 completed == successful + failed
                 finished == {i \in ids : map[i].status = "finished"}
                 RECURSIVE Total(_)
                 Total(S) ==
                     IF S = {} THEN 0
                     ELSE LET i == CHOOSE j \in S : TRUE
                          IN  The(map[i].response).total_recommendations
                                + Total(S \ {i})
             IN  Returned(
                   [total_recommendations |-> Cardinality(ids),
                    successful_recommendations |-> successful,
                    failed_recommendations |-> failed,
                    in_progress_recommendations |->
                        Cardinality({i \in ids : map[i].status = "generating"}),
                    success_rate |-> IF completed > 0
                                     THEN (200 * successful + completed) \div (2 * completed)
                                     ELSE 0,
                    total_relationships_generated |-> Total(finished),
                    average_relationships_per_recommendation |->
                        IF successful > 0
                        THEN (20 * Total(finished) + successful) \div (2 * successful)
                        ELSE 0,
                    project_id |-> project_id])

\* ----------------------------- main.py and src/pipelines/sql_generation.py

PlainQuery == "list users created this year"
WhereQuery == "users where id is positive"
Queries == {PlainQuery, WhereQuery}
\* 'where' in query.lower()
QueryMentionsWhere(query) == query = WhereQuery

GenerationReplies ==
    IF scope.exhaustive THEN AllReplies
    ELSE {<<MSql, SP, PSelectFrom, NL, MExplanation>>, <<MSql, SP, PDrop>>,
          <<MSql, SP, PSelectFrom, SP, PWhere, SP, PLimitLow>>}

\* sqlparse.parse(sql) is non-empty for every non-empty text
SqlParses(sql) == sql # <<>>

\* the confidence _calculate_confidence returns from its except clause
CalculateConfidenceExcept == 30

\* a bug: the sum is returned without min(confidence, 1.0)
CalculateConfidenceUnclamped(sql, query) ==
    50 + (IF SqlParses(sql) THEN 20 ELSE 0)
       + (IF ContainsWord(sql, "SELECT") THEN 10 ELSE 0)
       + (IF ContainsWord(sql, "FROM") THEN 10 ELSE 0)
       + (IF QueryMentionsWhere(query) /\ ContainsWord(sql, "WHERE") THEN 10 ELSE 0)
       + (IF ContainsWord(sql, "LIMIT") THEN 10 ELSE 0)

\* SQLGenerationPipeline._calculate_confidence, in hundredths
CalculateConfidence(sql, query) ==
    LET conf == 50
              + (IF SqlParses(sql) THEN 20 ELSE 0)
              + (IF ContainsWord(sql, "SELECT") THEN 10 ELSE 0)
              + (IF ContainsWord(sql, "FROM") THEN 10 ELSE 0)
              + (IF QueryMentionsWhere(query) /\ ContainsWord(sql, "WHERE") THEN 10 ELSE 0)
              + (IF ContainsWord(sql, "LIMIT") THEN 10 ELSE 0)
    IN  IF conf > 100 THEN 100 ELSE conf

\* SQLGenerationPipeline.generate_sql after the language model has replied
GenerationFromReply(query, response) ==
    LET extracted == ExtractSqlFromResponse(response)
    IN  IF ~extracted.ok
        THEN Raised("Exception", extracted.msg)
        ELSE Returned([sql |-> extracted.val,
                       confidence |-> CalculateConfidence(extracted.val, query)])

\* POST /generate-sql: generate_sql runs to its retrieval call
GenerateSqlRequest ==
    /\ CanAdmit
    /\ \E query \in Queries :
        LET id == next_id + 1 IN
        /\ next_id' = id
        /\ gens' = gens @@ (id :> [pc |-> IF SimilaritySearchBinds(GenerationSearchKwargs)
                                          THEN "await_search" ELSE "done",
                                   query |-> query,
                                   search_calls |-> IF SimilaritySearchBinds(GenerationSearchKwargs)
                                                    THEN 1 ELSE 0,
                                   llm_calls |-> 0,
                                   retrieved |-> FALSE,
                                   reply |-> None,
                                   result |-> IF SimilaritySearchBinds(GenerationSearchKwargs)
                                              THEN None
                                              ELSE Some(Raised("Exception", "unexpected keyword argument"))])
    /\ UNCHANGED <<scope, corrVars, recVars, schemaVars, askVars>>

\* the awaited collaborator call of generate_sql returns or raises; the
\* request ends with the result or with the error (HTTP 500)
GenerateSqlResume(id) ==
    /\ id \in DOMAIN gens
    /\ LET g == gens[id] IN
       \/ /\ g.pc = "await_search"
          \* the search returns relevant_context: some documents, or none
          /\ \/ \E any \in BOOLEAN :
                  gens' = [gens EXCEPT ![id].pc = "await_llm",
                                       ![id].llm_calls = @ + 1,
                                       ![id].retrieved = any]
             \/ gens' = [gens EXCEPT ![id].pc = "done",
                            ![id].result = Some(Raised("Exception", "Similarity search failed"))]
       \/ /\ g.pc = "await_llm"
          /\ \E out \in {Returned(r) : r \in GenerationReplies} \cup {LlmFailure} :
                gens' = [gens EXCEPT ![id].pc = "done",
                            ![id].reply = IF out.ok THEN Some(out.val) ELSE None,
                            ![id].result = Some(IF out.ok
                                                THEN GenerationFromReply(g.query, out.val)
                                                ELSE Raised("Exception", out.msg))]
    /\ UNCHANGED <<scope, next_id, corrVars, recVars, schemaVars, askVars>>

\* ---------------------------------------------------- schema indexing

\* schema_data: tables in the order of the dict, each with its columns (a
\* dict, or a bare name), and the relationships
ShopSchema ==
    [tables |-> << [name |-> "users",
                    columns |-> << [dict |-> TRUE, name |-> "id"],
                                   [dict |-> FALSE, name |-> "email"] >>],
                   [name |-> "orders",
                    columns |-> << [dict |-> TRUE, name |-> "user_id"] >>] >>,
     relationships |-> << [dict |-> TRUE, from_table |-> "orders",
                           to_table |-> "users"] >>]
EmptySchema == [tables |-> << >>, relationships |-> << >>]
Schemas == {ShopSchema, EmptySchema}
IndexProjects == {"p1", "p2"}

\* f"schema_{project_id}"
CollectionName(project_id) == <<"schema_", project_id>>

\* SchemaIndexingPipeline._process_table_descriptions
ProcessTableDescriptions(project_id, schema_data) ==
    [i \in 1..Len(schema_data.tables) |->
        [type |-> "table_description", project_id |-> project_id,
         table_name |-> schema_data.tables[i].name, name |-> ""]]

\* the inner loop of _process_table_columns: one document per dict column
ColumnDocs(project_id, table) ==
    LET cols == SelectSeq(table.columns, LAMBDA c : c.dict)
    IN  [i \in 1..Len(cols) |->
            [type |-> "table_columns", project_id |-> project_id,
             table_name |-> table.name, name |-> cols[i].name]]

RECURSIVE ProcessTableColumnsOf(_, _)
ProcessTableColumnsOf(project_id, tables) ==
    IF tables = << >> THEN << >>
    ELSE ColumnDocs(project_id, Head(tables))
           \o ProcessTableColumnsOf(project_id, Tail(tables))

\* SchemaIndexingPipeline._process_table_columns
ProcessTableColumns(project_id, schema_data) ==
    ProcessTableColumnsOf(project_id, schema_data.tables)

\* SchemaIndexingPipeline._process_relationships
ProcessRelationships(project_id, schema_data) ==
    LET rels == SelectSeq(schema_data.relationships, LAMBDA r : r.dict)
    IN  [i \in 1..Len(rels) |->
            [type |-> "relationship", project_id |-> project_id,
             table_name |-> rels[i].from_table, name |-> rels[i].to_table]]

\* all_docs of index_database_schema
AllDocs(project_id, schema_data) ==
    ProcessTableDescriptions(project_id, schema_data)
      \o ProcessTableColumns(project_id, schema_data)
      \o ProcessRelationships(project_id, schema_data)

\* VectorStore.add_documents: the documents carry no id, they are appended
\* to the collection, which is created when it is absent
AddDocuments(store, collection_name, documents) ==
    IF collection_name \in DOMAIN store
    THEN [store EXCEPT ![collection_name] = @ \o documents]
    ELSE store @@ (collection_name :> documents)

\* VectorStore.delete_collection
DeleteCollection(store, collection_name) ==
    [c \in DOMAIN store \ {collection_name} |-> store[c]]

\* SchemaIndexingPipeline.index_database_schema against the store `store`;
\* store_ok is whether the vector store answers (a store that is not
\* configured or not reachable raises)
IndexDatabaseSchema(store, project_id, schema_data, store_ok) ==
    LET table_docs == ProcessTableDescriptions(project_id, schema_data)
        column_docs == ProcessTableColumns(project_id, schema_data)
        relationship_docs == ProcessRelationships(project_id, schema_data)
        all_docs == AllDocs(project_id, schema_data)
    IN  IF all_docs # << >> /\ ~store_ok
        THEN [store |-> store,
              result |-> [status |-> "error", indexed_tables |-> 0,
                          indexed_columns |-> 0, indexed_relationships |-> 0]]
        ELSE [store |-> IF all_docs # << >>
                        THEN AddDocuments(store, CollectionName(project_id), all_docs)
                        ELSE store,
              result |-> [status |-> "success",
                          indexed_tables |-> Len(table_docs),
                          indexed_columns |-> Len(column_docs),
                          indexed_relationships |-> Len(relationship_docs),
                          total_documents |-> Len(all_docs)]]

\* POST /v1/schema/index: SchemaService.index_schema
IndexSchema ==
    /\ CanAdmit
    /\ \E project_id \in IndexProjects, schema_data \in Schemas, store_ok \in BOOLEAN :
        LET run == IndexDatabaseSchema(storage, project_id, schema_data, store_ok) IN
        /\ storage' = run.store
        /\ indexed' = Append(indexed, [op |-> "index", project_id |-> project_id,
                                       schema_data |-> schema_data,
                                       result |-> run.result])
    /\ next_id' = next_id + 1
    /\ UNCHANGED <<scope, corrVars, recVars, gens, askVars>>

\* POST /v1/schema/{project_id}/update: SchemaIndexingPipeline
\* .update_schema_index drops the collection, then indexes; when the drop
\* raises, the answer is an error without counts
UpdateSchemaIndex ==
    /\ CanAdmit
    /\ \E project_id \in IndexProjects, schema_changes \in Schemas,
          delete_ok \in BOOLEAN, store_ok \in BOOLEAN :
        LET dropped == DeleteCollection(storage, CollectionName(project_id))
            run == IndexDatabaseSchema(dropped, project_id, schema_changes, store_ok)
        IN
        /\ storage' = IF delete_ok THEN run.store ELSE storage
        /\ indexed' = Append(indexed,
                [op |-> "update", project_id |-> project_id,
                 schema_data |-> schema_changes,
                 result |-> IF delete_ok THEN run.result
                            ELSE [status |-> "error"]])
    /\ next_id' = next_id + 1
    /\ UNCHANGED <<scope, corrVars, recVars, gens, askVars>>

\* DELETE /v1/schema/{project_id}: SchemaService.delete_schema_index
DeleteSchemaIndex(project_id) ==
    /\ CollectionName(project_id) \in DOMAIN storage
    /\ storage' = DeleteCollection(storage, CollectionName(project_id))
    /\ UNCHANGED <<scope, next_id, corrVars, recVars, gens, indexed, askVars>>

\* similarity_search of a store: a store that is not configured (no
\* Qdrant URL, or no embeddings provider to embed the query) raises, a
\* configured one answers with documents of the collection
SimilaritySearch(store, configured, collection_name) ==
    IF ~configured
    THEN Raised("RuntimeError", "Vector store is not configured")
    ELSE Returned(IF collection_name \in DOMAIN store
                  THEN store[collection_name] ELSE << >>)

\* SchemaService.search_schema: what the caller gets
SearchSchema(project_id, configured) ==
    LET results == SimilaritySearch(storage, configured, CollectionName(project_id))
    IN  IF results.ok THEN results ELSE Returned(<< >>)

\* SqlCorrectionService._get_project_schema: what correct_sql gets
GetProjectSchema(project_id, configured) ==
    LET results == IF SimilaritySearchBinds(SchemaLookupKwargs)
                   THEN SimilaritySearch(storage, configured, CollectionName(project_id))
                   ELSE Raised("TypeError", "unexpected keyword argument 'collection'")
    IN  IF results.ok /\ results.val # << >>
        THEN Returned(Some(results.val))
        ELSE Returned(None)

\* ---------------------------------------------------------------- ask

\* generate_sql: project_id = project_id or context.get('project_id',
\* 'default'), inside the try whose except re-raises as Exception
ResolveProjectId(project_id, context) ==
    IF project_id # None THEN Returned(The(project_id))
    ELSE IF context = None
         THEN Raised("Exception", "'NoneType' object has no attribute 'get'")
         ELSE Returned("default")

\* AskService.create_ask: the entry is stored as pending and the
\* _process_query task is created; it runs later
CreateAsk ==
    /\ CanAdmit
    /\ \E query \in Queries :
        LET query_id == next_id + 1 IN
        /\ next_id' = query_id
        /\ queries' = queries @@ (query_id :> [query |-> query, status |-> "pending",
                                               result |-> None, error |-> None])
        /\ qtasks' = qtasks @@ (query_id :> "queued")
    /\ UNCHANGED <<scope, corrVars, recVars, gens, schemaVars>>

\* AskService._process_query: generate_sql is called with the query,
\* mdl_hash and histories only, so neither project_id nor context is given;
\* what generate_sql returns is stored as completed, what it raises as
\* failed
ProcessQuery(query_id) ==
    /\ query_id \in DOMAIN qtasks
    /\ qtasks[query_id] = "queued"
    /\ LET entered == ResolveProjectId(None, None)
           outcomes == IF entered.ok
                       THEN {GenerationFromReply(queries[query_id].query, r) :
                                r \in GenerationReplies}
                              \cup {Raised("Exception", LlmFailure.msg)}
                       ELSE {entered}
       IN  \E out \in outcomes :
             queries' = IF out.ok
                        THEN [queries EXCEPT ![query_id].result = Some([sql |-> out.val.sql]),
                                             ![query_id].status = "completed"]
                        ELSE [queries EXCEPT ![query_id].error = Some(out.msg),
                                             ![query_id].status = "failed"]
    /\ qtasks' = [qtasks EXCEPT ![query_id] = "done"]
    /\ UNCHANGED <<scope, next_id, corrVars, recVars, gens, schemaVars>>

\* a bug: stopping cancels the background task
StopAskCancelling(query_id) ==
    /\ query_id \in DOMAIN queries
    /\ queries[query_id].status # "stopped"
    /\ queries' = [queries EXCEPT ![query_id].status = "stopped"]
    /\ qtasks' = [qtasks EXCEPT ![query_id] = "done"]
    /\ UNCHANGED <<scope, next_id, corrVars, recVars, gens, schemaVars>>

\* AskService.stop_ask (a stop of an ask that already says stopped
\* changes nothing)
StopAsk(query_id) ==
    /\ query_id \in DOMAIN queries
    /\ queries[query_id].status # "stopped"
    /\ queries' = [queries EXCEPT ![query_id].status = "stopped"]
    /\ UNCHANGED <<scope, next_id, corrVars, recVars, gens, schemaVars, qtasks>>

\* AskService.get_ask_result: the stored result of a completed ask, the
\* stored error raised for a failed one, None otherwise
GetAskResult(query_id) ==
    IF query_id \in DOMAIN queries /\ queries[query_id].status = "completed"
    THEN Returned(queries[query_id].result)
    ELSE IF query_id \in DOMAIN queries /\ queries[query_id].status = "failed"
    THEN Raised("Exception", The(queries[query_id].error))
    ELSE Returned(None)

\* ------------------------------------------------------ specification

EmptyMap == [i \in {} |-> None]

InitWith(sc) ==
    /\ scope = sc
    /\ next_id = 0
    /\ events = EmptyMap
    /\ ctasks = EmptyMap
    /\ recommendations = EmptyMap
    /\ rtasks = EmptyMap
    /\ gens = EmptyMap
    /\ storage = EmptyMap
    /\ indexed = <<>>
    /\ queries = EmptyMap
    /\ qtasks = EmptyMap

\* the services under MaxRequests concurrent requests, the language model
\* answering from the sample replies
Init == InitWith([exhaustive |-> FALSE, requests |-> MaxRequests])

\* one request at a time, the language model answering with any reply of
\* at most MaxLen pieces
InitText == InitWith([exhaustive |-> TRUE, requests |-> 1])

Next ==
    \/ CorrectSqlRequest
    \/ \E id \in Allocated : CorrectSqlStart(id)
    \/ \E id \in Allocated : CorrectSqlResume(id)
    \/ \E id \in Allocated : DeleteEvent(id)
    \/ \E cutoff \in 1..(next_id + 1) : CleanupOldEvents(cutoff)
    \/ RecommendRequest
    \/ \E id \in Allocated : RecommendStart(id)
    \/ \E id \in Allocated : RecommendResume(id)
    \/ \E id \in Allocated : DeleteRecommendation(id)
    \/ \E cutoff \in 1..(next_id + 1) : CleanupOldRecommendations(cutoff)
    \/ GenerateSqlRequest
    \/ \E id \in Allocated : GenerateSqlResume(id)
    \/ IndexSchema
    \/ UpdateSchemaIndex
    \/ \E project_id \in IndexProjects : DeleteSchemaIndex(project_id)
    \/ CreateAsk
    \/ \E query_id \in Allocated : ProcessQuery(query_id)
    \/ \E query_id \in Allocated : StopAsk(query_id)

Spec == Init /\ [][Next]_vars

SpecText == InitText /\ [][Next]_vars

\* a step of a background correction task: it starts, or the collaborator
\* call it awaits returns or raises
CorrectionTaskStep ==
    \E id \in 1..MaxRequests : CorrectSqlStart(id) \/ CorrectSqlResume(id)

\* the event loop runs a correction task that is ready, and every
\* collaborator call it awaits returns or raises
TasksRun == WF_vars(CorrectionTaskStep)

FairSpec == Init /\ [][Next]_vars /\ TasksRun

\* ------------------------------------------------------------ properties

InProgress == {"correcting", "generating"}
Terminal == {"finished", "failed"}

\* one step of an entry map: a new entry starts in progress, and a status
\* changes only from in progress to a terminal value
LifecycleStep(old, new, inprogress) ==
    /\ \A id \in DOMAIN new \ DOMAIN old : new[id].status = inprogress
    /\ \A id \in DOMAIN new \cap DOMAIN old :
          new[id].status # old[id].status
            => old[id].status = inprogress /\ new[id].status \in Terminal

\* C1: the status of a correction event and of a recommendation only moves
\* from its in-progress value to finished or failed, once, whatever the
\* service operations in between; a terminal status never changes again
C1_StatusMonotonic ==
    [][/\ LifecycleStep(events, events', "correcting")
       /\ LifecycleStep(recommendations, recommendations', "generating")]_vars

\* C1 case: a correction event and a recommendation have both ended
C1_Witness ==
    /\ \E id \in DOMAIN events : events[id].status \in Terminal
    /\ \E id \in DOMAIN recommendations : recommendations[id].status \in Terminal

CorrectionEnded(id) ==
    id \in DOMAIN events /\ events[id].status \in Terminal

\* C2 as stated: every initialized correction event reaches a terminal
\* status
C2_EveryEventTerminates ==
    \A id \in 1..MaxRequests : (id \in DOMAIN events) ~> CorrectionEnded(id)

\* C2, amended: every initialized correction event reaches a terminal status
\* or is removed from the map first; while its task has not ended and the
\* entry is there, get_event_status answers correcting
C2_TerminatesUnlessRemoved ==
    /\ \A id \in 1..MaxRequests :
          (id \in DOMAIN events) ~> (CorrectionEnded(id) \/ id \notin DOMAIN events)
    /\ [](\A id \in DOMAIN ctasks :
            ctasks[id].pc # "done" /\ GetEventStatus(id) # None
              => The(GetEventStatus(id)).status = "correcting")

\* C2 case: one task has ended with its event in a terminal status, another
\* has ended after its event was removed
C2_Witness ==
    /\ \E id \in DOMAIN ctasks : ctasks[id].pc = "done" /\ CorrectionEnded(id)
    /\ \E id \in DOMAIN ctasks : ctasks[id].pc = "done" /\ id \notin DOMAIN events

\* the SQL statements that have reached a caller: the results generate_sql
\* returned and the corrected_sql of the finished correction events
ReturnedSql ==
    {The(gens[id].result).val.sql :
        id \in {i \in DOMAIN gens : gens[i].result # None /\ The(gens[i].result).ok}}
    \cup {The(events[id].response).corrected_sql :
        id \in {i \in DOMAIN events : events[i].status = "finished"}}

MutatingKeywords ==
    {"INSERT", "UPDATE", "DELETE", "DROP", "CREATE", "ALTER", "TRUNCATE"}

\* C4: whatever the language model replies, no SQL that generate_sql returns
\* or that a finished correction event holds contains INSERT, UPDATE, DELETE,
\* DROP, CREATE, ALTER or TRUNCATE as a whole word
C4_NoMutatingKeywordReturned ==
    \A sql \in ReturnedSql : \A kw \in MutatingKeywords : ~ContainsWholeWord(sql, kw)

\* C4 case: generate_sql has returned SQL for a reply that holds the DROP
\* piece, which the statement it returns does not hold as a word
C4_Witness ==
    \E id \in DOMAIN gens :
        /\ gens[id].reply # None
        /\ \E i \in 1..Len(The(gens[id].reply)) : The(gens[id].reply)[i] = PDrop
        /\ gens[id].result # None
        /\ The(gens[id].result).ok

\* the row-limit clauses of a statement: the positions of its LIMIT pieces
LimitClauses(sql) == {i \in 1..Len(sql) : LimitValueOf(sql[i]) > 0}

\* C5 as stated: every SQL statement returned by generation or correction
\* has exactly one row-limit clause, at its end, of at most the configured
\* maximum (the validator appends it when the model's SQL has none)
C5_OneTrailingRowLimit ==
    \A sql \in ReturnedSql :
        /\ Cardinality(LimitClauses(sql)) = 1
        /\ \A i \in LimitClauses(sql) :
              /\ i = Len(sql) - 1
              /\ LimitValueOf(sql[i]) <= PromptMaxRows

\* the statement the keyword scan of either validator reads, for a candidate
ScannedHasMutatingKeyword(candidate) ==
    \E kw \in MutatingKeywords : ContainsWholeWord(Terminated(candidate), kw)

WellFormedRelationship(rel, mdl) ==
    LET IsColumnOf(column, model) ==
            \E i \in 1..Len(mdl.models) :
                /\ mdl.models[i].name = model
                /\ \E j \in 1..Len(mdl.models[i].columns) :
                      /\ mdl.models[i].columns[j].name = column
                      /\ ~mdl.models[i].columns[j].relationship
    IN  /\ rel.fromModel # rel.toModel
        /\ rel.type \in {"MANY_TO_ONE", "ONE_TO_MANY", "ONE_TO_ONE"}
        /\ IsColumnOf(rel.fromColumn, rel.fromModel)
        /\ IsColumnOf(rel.toColumn, rel.toModel)

\* every list validate_relationships gives back, for every candidate list
\* of at most MaxRels candidates, holds well-formed relationships only
ValidateRelationshipsOutputWellFormed ==
    \A mdl \in {MdlOne, MdlTwo} : \A q \in SeqsUpTo(AllCandidates, MaxRels) :
        LET out == ValidateRelationships(q, mdl)
        IN  \A i \in 1..Len(out) : WellFormedRelationship(out[i], mdl)

\* C7: whatever the language model proposes, a finished recommendation's
\* list and the output of validate_relationships hold no relationship of a
\* model with itself, of a type outside the three, with an endpoint model
\* that the model definition lacks, or with a column that is not a
\* non-relationship column of its model
C7_OnlyWellFormedRelationships ==
    /\ \A id \in DOMAIN recommendations :
          recommendations[id].status = "finished"
            => LET rels == The(recommendations[id].response).relationships
               IN  \A i \in 1..Len(rels) :
                      WellFormedRelationship(rels[i], rtasks[id].mdl)
    /\ ValidateRelationshipsOutputWellFormed

\* C7 case: the reply proposed a relationship of a model with itself next
\* to a valid one, and the finished list holds the valid one only
C7_Witness ==
    \E id \in DOMAIN recommendations :
        /\ recommendations[id].status = "finished"
        /\ rtasks[id].reply # None
        /\ \E i \in 1..Len(The(rtasks[id].reply).rels) :
              The(rtasks[id].reply).rels[i] = SelfCandidate
        /\ The(recommendations[id].response).relationships = <<ValidCandidate>>

\* C8 as stated: with fewer than 2 entities in the cleaned model definition
\* the recommendation is finished with an empty list and the language model
\* is never called
C8_FewEntitiesFinishEmpty ==
    \A id \in DOMAIN rtasks :
        (/\ rtasks[id].pc = "done"
         /\ rtasks[id].mdl.valid_json
         /\ Len(CleanModels(rtasks[id].mdl)) < 2
         /\ id \in DOMAIN recommendations)
          => /\ recommendations[id].status = "finished"
             /\ recommendations[id].response # None
             /\ The(recommendations[id].response).relationships = <<>>
             /\ rtasks[id].llm_calls = 0

\* a reply with no {...} span, or whose span is not a JSON object, once the
\* code fences are taken out of it
MalformedReply(text) ==
    LET NotFence(p) == p \notin {Fence, FenceJson}
        t == SelectSeq(text, NotFence)
        opens == {i \in 1..Len(t) : t[i] = LBrace}
        closes == {i \in 1..Len(t) : t[i] = RBrace}
    IN  \/ opens = {} \/ closes = {}
        \/ \A i \in opens : \A j \in closes : j < i
        \/ /\ opens # {} /\ closes # {}
           /\ Slice(t, First(opens), Last(closes))
                \notin {<<LBrace, RBrace>>, <<LBrace, PRels, RBrace>>,
                        <<LBrace, PRelsNull, RBrace>>}

\* C9: for a model definition with at least 2 entities, a malformed reply
\* of the language model ends the recommendation finished with an empty
\* list, not failed
C9_MalformedReplyFinishesEmpty ==
    \A id \in DOMAIN rtasks :
        (/\ rtasks[id].reply # None
         /\ Len(CleanModels(rtasks[id].mdl)) >= 2
         /\ MalformedReply(The(rtasks[id].reply).text))
          => /\ rtasks[id].pc = "done"
             /\ rtasks[id].outcome = "returned"
             /\ id \in DOMAIN recommendations
                  => /\ recommendations[id].status = "finished"
                     /\ The(recommendations[id].response).relationships = <<>>

\* C9 case: a reply that opens an object and never closes it has ended a
\* recommendation over two entities
C9_Witness ==
    \E id \in DOMAIN rtasks :
        /\ rtasks[id].reply # None
        /\ The(rtasks[id].reply).text = <<PText, LBrace, PRels>>
        /\ Len(CleanModels(rtasks[id].mdl)) >= 2
        /\ id \in DOMAIN recommendations
        /\ recommendations[id].status = "finished"

\* an entry that records a failure: failed, with the message and the kind
\* of the error, and no response
RecordsFailure(entry) ==
    /\ entry.status = "failed"
    /\ entry.error # None
    /\ {"message", "type"} \subseteq DOMAIN The(entry.error)
    /\ entry.response = None

\* C10: a background task always runs to its end, and when it ended on an
\* error its entry is failed, holds the error's message and kind, and has no
\* response
C10_ErrorsRecordedAsFailed ==
    /\ \A id \in DOMAIN ctasks :
          /\ ctasks[id].pc \in {"queued", "await_schema", "await_search", "await_llm", "done"}
          /\ ctasks[id].outcome = "raised"
               => ctasks[id].pc = "done"
                  /\ (id \in DOMAIN events => RecordsFailure(events[id]))
    /\ \A id \in DOMAIN rtasks :
          /\ rtasks[id].pc \in {"queued", "await_llm", "done"}
          /\ rtasks[id].outcome = "raised"
               => rtasks[id].pc = "done"
                  /\ (id \in DOMAIN recommendations
                        => RecordsFailure(recommendations[id]))

\* C10 case: a correction task and a recommendation task have both ended on
\* an error, with their entries still there
C10_Witness ==
    /\ \E id \in DOMAIN ctasks :
          ctasks[id].outcome = "raised" /\ id \in DOMAIN events
    /\ \E id \in DOMAIN rtasks :
          rtasks[id].outcome = "raised" /\ id \in DOMAIN recommendations

\* SQL texts given to the two confidence functions: every text of at most
\* MaxLen pieces, a WHERE clause among the pieces
ConfidenceSqls == SeqsUpTo(Pieces \cup {PWhere}, MaxLen)

\* the two confidence functions stay within [0, 1] (hundredths) on every
\* input, their except clauses included
ConfidenceFunctionsInRange ==
    /\ \A sql \in ConfidenceSqls : \A query \in Queries :
          CalculateConfidence(sql, query) \in 0..100
    /\ CalculateConfidenceExcept \in 0..100
    /\ \A original \in {BrokenSql, <<PSelect, SP, PCreatedAt>>} :
          \A corrected \in ConfidenceSqls :
             ValidateCorrection(original, corrected).confidence \in 0..100
    /\ ValidateCorrectionExcept.confidence \in 0..100

\* C11: every confidence is within [0, 1]: those _calculate_confidence and
\* _validate_correction compute for any input, and those that reach a
\* generation result or a finished correction event
C11_ConfidenceInUnitInterval ==
    /\ ConfidenceFunctionsInRange
    /\ \A id \in DOMAIN gens :
          gens[id].result # None /\ The(gens[id].result).ok
            => The(gens[id].result).val.confidence \in 0..100
    /\ \A id \in DOMAIN events :
          events[id].response # None
            => The(events[id].response).confidence \in 0..100

\* C11 case: a generation whose query and SQL both mention WHERE, with
\* SELECT, FROM and LIMIT, has returned with the confidence at the top of
\* the interval
C11_Witness ==
    \E id \in DOMAIN gens :
        /\ gens[id].query = WhereQuery
        /\ gens[id].result # None
        /\ The(gens[id].result).ok
        /\ ContainsWord(The(gens[id].result).val.sql, "WHERE")
        /\ The(gens[id].result).val.confidence = 100

\* the indexing requests served so far for one project
RunsFor(project_id) == SelectSeq(indexed, LAMBDA r : r.project_id = project_id)

\* C12: when every indexing run served for a project so far was given the
\* same schema and succeeded, be it one run or several in a row, the
\* collection schema_{project_id} holds exactly one document per table, per
\* column and per relationship the indexer counts in that schema
C12_ReindexIsIdempotent ==
    \A project_id \in IndexProjects :
        LET runs == RunsFor(project_id)
            n == Len(runs)
        IN  ( /\ n >= 1
              /\ \A i \in 1..n : /\ runs[i].schema_data = runs[n].schema_data
                                 /\ runs[i].result.status = "success"
              /\ CollectionName(project_id) \in DOMAIN storage )
            => Len(storage[CollectionName(project_id)])
                 = runs[n].result.indexed_tables + runs[n].result.indexed_columns
                     + runs[n].result.indexed_relationships

\* a step leaves every entry of the map other than id as it was, and adds
\* and removes none
OthersUntouched(old, new, id) ==
    /\ DOMAIN new = DOMAIN old
    /\ \A other \in DOMAIN old \ {id} : new[other] = old[other]

\* C13: every step of the correct_sql task of an id leaves every event
\* keyed by another id, and the whole recommendation map, unchanged; every
\* step of the recommend_relationships task of an id leaves every other
\* recommendation, and the whole event map, unchanged
C13_TaskWritesOnlyItsEntry ==
    [][\A id \in 1..MaxRequests :
         /\ (CorrectSqlStart(id) \/ CorrectSqlResume(id))
               => /\ OthersUntouched(events, events', id)
                  /\ recommendations' = recommendations
         /\ (RecommendStart(id) \/ RecommendResume(id))
               => /\ OthersUntouched(recommendations, recommendations', id)
                  /\ events' = events]_vars

\* C13 case: two correction tasks ran concurrently; one has written its
\* terminal status while the other, started as well, is still awaiting a
\* collaborator and its event still says correcting
C13_Witness ==
    \E a \in DOMAIN events, b \in DOMAIN events :
        /\ a # b
        /\ a \in DOMAIN ctasks /\ b \in DOMAIN ctasks
        /\ ctasks[a].pc = "done" /\ events[a].status \in Terminal
        /\ ctasks[b].pc \in {"await_schema", "await_search", "await_llm"}
        /\ events[b].status = "correcting"

\* C14: stop_ask only writes the status: a step of stop_ask sets it to
\* stopped and leaves the background task as it was, and the step of
\* _process_query that follows on a stopped ask overwrites stopped with
\* completed or failed
C14_StopIsAdvisory ==
    [][\A query_id \in 1..MaxRequests :
         /\ StopAsk(query_id)
               => /\ queries'[query_id].status = "stopped"
                  /\ qtasks' = qtasks
         /\ (ProcessQuery(query_id) /\ queries[query_id].status = "stopped")
               => queries'[query_id].status \in {"completed", "failed"}]_vars

\* C14 case: an ask was stopped before its background task ran; the task
\* is still due, and its step leads to a state where the status is failed
C14_Witness ==
    \E query_id \in DOMAIN queries :
        /\ queries[query_id].status = "stopped"
        /\ qtasks[query_id] = "queued"
        /\ ENABLED (ProcessQuery(query_id) /\ queries'[query_id].status = "failed")

\* C15: no run retries or goes on after a failure: a generate_sql call, a
\* correction task and a recommendation task call the language model at
\* most once and the vector store at most once per retrieval step (the
\* correction task has two: the schema lookup and the pipeline's search),
\* and a run in which a collaborator call has raised makes no further call,
\* so that no run has seen two calls raise
C15_NoRetryNoCallAfterFailure ==
    /\ \A id \in DOMAIN gens :
          /\ gens[id].llm_calls <= 1 /\ gens[id].search_calls <= 1
          /\ (gens[id].result # None /\ ~The(gens[id].result).ok)
                => gens[id].pc = "done"
    /\ \A id \in DOMAIN rtasks :
          /\ rtasks[id].llm_calls <= 1
          /\ rtasks[id].outcome = "raised" => rtasks[id].pc = "done"
    /\ \A id \in DOMAIN ctasks :
          /\ ctasks[id].llm_calls <= 1 /\ ctasks[id].search_calls <= 2
          /\ ctasks[id].outcome = "raised" => ctasks[id].pc = "done"
          /\ ctasks[id].failed_calls <= 1

\* C16: a correction run with a project id passes the collection to
\* similarity_search as collection_name, never as collection, so the call
\* binds to the VectorStore signature: no such run ends on the call itself,
\* before the store and the language model are reached
C16_CorrectionSearchBinds ==
    /\ "collection_name" \in CorrectionSearchKwargs
    /\ "collection" \notin CorrectionSearchKwargs
    /\ \A id \in DOMAIN ctasks :
          (ctasks[id].project_id # None /\ ctasks[id].pc = "done")
            => ~( /\ ctasks[id].llm_calls = 0
                  /\ ctasks[id].outcome = "raised"
                  /\ ctasks[id].failed_calls = ctasks[id].search_calls )

\* C17: with the vector store or the embedding provider not configured, a
\* search path hands the configuration error to its caller: neither
\* search_schema nor the correction service's schema lookup returns (an
\* empty list, None) in its place
C17_ConfigurationErrorSurfaces ==
    \A project_id \in IndexProjects :
        /\ ~SearchSchema(project_id, FALSE).ok
        /\ ~GetProjectSchema(project_id, FALSE).ok

\* C18: a correction whose corrected SQL holds a mutating keyword still ends
\* finished, its response carrying validation_passed = false and
\* confidence 0
C18_MutatingCorrectionFinishes ==
    \A id \in DOMAIN ctasks \cap DOMAIN events :
        ( /\ ctasks[id].pc = "done"
          /\ ctasks[id].reply # None
          /\ CorrectedSqlCandidate(The(ctasks[id].reply)) # None
          /\ ScannedHasMutatingKeyword(The(CorrectedSqlCandidate(The(ctasks[id].reply)))) )
        => /\ events[id].status = "finished"
           /\ events[id].response # None
           /\ ~The(events[id].response).validation_passed
           /\ The(events[id].response).confidence = 0

\* the candidate statements the replies held by the generations and the
\* correction tasks have put before a validator
SeenCandidates ==
    {SqlCandidate(The(gens[id].reply)) :
        id \in {i \in DOMAIN gens : gens[i].reply # None}}
    \cup {The(CorrectedSqlCandidate(The(ctasks[id].reply))) :
        id \in {i \in DOMAIN ctasks :
                   /\ ctasks[i].reply # None
                   /\ CorrectedSqlCandidate(The(ctasks[i].reply)) # None}}

\* C19: the two validators apply one rule: for every candidate SQL a reply
\* puts before either of them, the generation validator rejects it exactly
\* when the correction validator does, which is exactly when a mutating
\* keyword occurs in it as a whole word (so a candidate with created_at as
\* a column and no keyword is accepted by both)
C19_SameSafetyRule ==
    \A sql \in SeenCandidates :
        /\ CleanSqlGeneration(sql).ok <=> CleanSqlCorrection(sql).ok
        /\ CleanSqlCorrection(sql).ok <=> ~ScannedHasMutatingKeyword(sql)

\* the +0.1 bonuses of the correction confidence, in hundredths
StructureBonus(sql) ==
    (IF ContainsWord(sql, "SELECT") THEN 10 ELSE 0)
      + (IF ContainsWord(sql, "FROM") THEN 10 ELSE 0)
      + (IF ContainsWord(sql, "LIMIT") THEN 10 ELSE 0)

\* the correction confidence of every pair of a submitted statement and a
\* corrected statement as _clean_sql returns it (none of the seven keywords
\* anywhere in its text) is base_same or base_changed, plus the bonuses
CorrectionConfidenceIs(base_same, base_changed) ==
    \A original \in {BrokenSql, <<PSelect, SP, PCreatedAt>>,
                     <<PSelectFrom, SP, PLimitLow, SEMI>>} :
        \A c \in ConfidenceSqls :
            LET corrected == Terminated(c) IN
            ~CorrectionRejects(corrected)
              => ValidateCorrection(original, corrected).confidence
                   = (IF Strip(original) = Strip(corrected)
                      THEN base_same ELSE base_changed)
                       + StructureBonus(corrected)

FlatBaseOnEveryPair == CorrectionConfidenceIs(50, 70)
UnchangedLowOnEveryPair == CorrectionConfidenceIs(20, 70)

\* the pairs of the finished events
FinishedPairs ==
    {<<The(events[id].response).original_sql,
       The(events[id].response).corrected_sql,
       The(events[id].response).confidence>> :
        id \in {i \in DOMAIN events : events[i].response # None}}

C21_ConfidenceWithRetrievalBonus ==
    \A id \in DOMAIN gens :
        (gens[id].result # None /\ The(gens[id].result).ok)
        => LET sql == The(gens[id].result).val.sql
               sum == 50 + (IF SqlParses(sql) THEN 20 ELSE 0)
                         + (IF ContainsWord(sql, "SELECT") THEN 10 ELSE 0)
                         + (IF ContainsWord(sql, "FROM") THEN 10 ELSE 0)
                         + (IF ContainsWord(sql, "LIMIT") THEN 10 ELSE 0)
                         + (IF gens[id].retrieved THEN 10 ELSE 0)
           IN  The(gens[id].result).val.confidence
                 = IF sum > 100 THEN 100 ELSE sum

\* the first SELECT statement of a reply: from the piece that holds the
\* word SELECT up to the next terminator or the end of the text
FirstSelectStatement(t) ==
    LET from == First({i \in 1..Len(t) : "SELECT" \in WordsIn(t[i])})
        semis == {j \in from..Len(t) : t[j] = SEMI}
    IN  Strip(Slice(t, from, IF semis = {} THEN Len(t) ELSE First(semis) - 1))

\* C22: a generation whose reply has no SQL: marker returns the first SELECT
\* statement of the reply, and fails when the reply has no SELECT either
C22_GenerationParseFallback ==
    \A id \in DOMAIN gens :
        (/\ gens[id].reply # None
         /\ MarkerAt(The(gens[id].reply), MSql) = {})
        => LET reply == The(gens[id].reply)
               result == The(gens[id].result)
           IN  IF \E i \in 1..Len(reply) : "SELECT" \in WordsIn(reply[i])
               THEN result = GenerationFromReply(gens[id].query,
                                 <<MSql>> \o FirstSelectStatement(reply))
               ELSE ~result.ok

\* the corrected SQL the layered fallback is stated to pick: the
\* CORRECTED_SQL: section, else the first fenced sql block, else the first
\* complete SELECT statement, else none
LayeredCandidate(response) ==
    LET at == MarkerAt(response, MCorrected)
        blocks == FencedBlockAt(response)
    IN  IF at # {} THEN Some(SectionBody(response, First(at)))
        ELSE IF blocks # {} THEN Some(FencedBody(response, First(blocks)))
        ELSE IF \E i \in 1..Len(response) : "SELECT" \in WordsIn(response[i])
             THEN Some(FirstSelectStatement(response))
        ELSE None

\* C23: a correction whose model replied ends with the SQL the layered
\* fallback picks (section, else fenced block, else the first complete
\* SELECT statement), and a reply with none of the three is a parse error
\* that leaves the event failed
C23_LayeredExtraction ==
    \A id \in DOMAIN ctasks :
        (ctasks[id].reply # None /\ id \in DOMAIN events)
        => LET candidate == LayeredCandidate(The(ctasks[id].reply))
           IN  IF candidate = None
               THEN /\ events[id].status = "failed"
                    /\ events[id].error # None
                    /\ The(events[id].error).message =
                         "Could not extract corrected SQL from response"
               ELSE IF CleanSqlCorrection(The(candidate)).ok
               THEN /\ events[id].status = "finished"
                    /\ The(events[id].response).corrected_sql
                         = CleanSqlCorrection(The(candidate)).val
               ELSE events[id].status = "failed"

ErrorTaxonomy ==
    {"syntax_error", "column_not_found", "table_not_found",
     "missing_group_by", "join_error", "unknown"}

\* C24: for every correction whose prompt has been rendered, the error
\* message is classified into one bucket of the taxonomy and the error type
\* written into the prompt is that same bucket
C24_PromptCarriesClassifiedType ==
    \A id \in DOMAIN ctasks :
        ctasks[id].llm_calls > 0
        => /\ DetermineErrorType(ctasks[id].error) \in ErrorTaxonomy
           /\ PromptErrorType(ctasks[id].error)
                = DetermineErrorType(ctasks[id].error)

\* C25: for every reply that parses as a JSON object, the recommendation is
\* not failed: it is finished with no candidate that fails a check (one of
\* another JSON kind in a field included) in its list
C25_NoCandidateFailsRecommendation ==
    \A id \in DOMAIN rtasks :
        (/\ rtasks[id].reply # None
         /\ JsonSpan(The(rtasks[id].reply))
              \in {<<LBrace, RBrace>>, <<LBrace, PRels, RBrace>>,
                   <<LBrace, PRelsNull, RBrace>>}
         /\ id \in DOMAIN recommendations)
        => /\ recommendations[id].status = "finished"
           /\ LET rels == The(recommendations[id].response).relationships
              IN  \A i \in 1..Len(rels) :
                     /\ WellFormedRelationship(rels[i], rtasks[id].mdl)
                     /\ \A f \in RequiredFields :
                           rels[i][f] \notin {JsonNull, JsonList}

\* C26: an event that has been deleted, or removed by the cleanup, is never
\* put back: once get_event_status returns nothing for an id that was
\* handed out, it returns nothing after every later step, the steps of the
\* event's own correction task included
C26_RemovedEventStaysRemoved ==
    [][\A id \in 1..MaxRequests :
         (id \in DOMAIN ctasks /\ GetEventStatus(id) = None)
            => GetEventStatus(id)' = None]_vars

\* C26 case: the event of a correction is gone from the map while its task
\* is still waiting for the language model
C26_Witness ==
    \E id \in DOMAIN ctasks :
        /\ GetEventStatus(id) = None
        /\ ctasks[id].pc = "await_llm"

\* C27 is about asks that have reached completed. No ask does: the call
\* of generate_sql in _process_query gives neither project_id nor context,
\* so every ask whose task has run is failed, or stopped after that
C27_NoAskCompletes ==
    \A query_id \in DOMAIN queries :
        /\ queries[query_id].status # "completed"
        /\ queries[query_id].result = None
        /\ qtasks[query_id] = "done" => queries[query_id].error # None

\* the errors an ask may end with when a collaborator fails or the reply
\* carries no acceptable SQL
AskFailureCauses ==
    {LlmFailure.msg, "Similarity search failed", "Dangerous SQL keyword detected"}

\* C28: an ask whose background task has run and whose collaborators all
\* succeeded is completed with the generated SQL as its result (or stopped
\* since): an ask is failed only by a collaborator's error or by a reply
\* without acceptable SQL
C28_AskCompletes ==
    \A query_id \in DOMAIN queries :
        qtasks[query_id] = "done"
        => \/ /\ queries[query_id].error # None
              /\ The(queries[query_id].error) \in AskFailureCauses
           \/ /\ queries[query_id].status \in {"completed", "stopped"}
              /\ queries[query_id].result # None
              /\ \E r \in GenerationReplies :
                    /\ GenerationFromReply(queries[query_id].query, r).ok
                    /\ The(queries[query_id].result).sql
                         = GenerationFromReply(queries[query_id].query, r).val.sql

\* C29: in every state of the recommendation map, list_recommendations and
\* get_statistics with a project filter return normally, and the listing
\* holds exactly the entries whose response carries that project
C29_ProjectFilterReturns ==
    \A project \in ProjectIds \ {None} :
        LET listed == ListRecommendations(recommendations, project, None, MaxRequests)
        IN  /\ listed.ok
            /\ {listed.val[i] : i \in 1..Len(listed.val)}
                 = {recommendations[id] :
                      id \in {i \in DOMAIN recommendations :
                                /\ recommendations[i].response # None
                                /\ The(recommendations[i].response).project_id = project}}
            /\ GetStatistics(recommendations, project).ok

\* C30: a re-index that answers with status error leaves the collection of
\* its project with the documents it had before the call, and a re-index
\* leaves the collections of the other projects as they were in every case
C30_FailedReindexIsAtomic ==
    [][UpdateSchemaIndex
         => LET run == indexed'[Len(indexed')]
                others == DOMAIN storage \ {CollectionName(run.project_id)}
            IN  /\ \A c \in others : c \in DOMAIN storage' /\ storage'[c] = storage[c]
                /\ DOMAIN storage' \ {CollectionName(run.project_id)} = others
                /\ run.result.status = "error" => storage' = storage]_vars

\* C3: in the event map, response is there exactly when the status is
\* finished (and holds the corrected SQL), error exactly when it is failed
C3_ResponseIffFinished ==
    \A id \in DOMAIN events :
        /\ events[id].response # None <=> events[id].status = "finished"
        /\ events[id].error # None <=> events[id].status = "failed"
        /\ events[id].response # None
             => "corrected_sql" \in DOMAIN The(events[id].response)

\* C3 case: a finished and a failed event
C3_Witness ==
    /\ \E id \in DOMAIN events : events[id].status = "finished"
    /\ \E id \in DOMAIN events : events[id].status = "failed"

====
